---- MODULE Spec2Model ----
(***************************************************************************)
(* A model of slug (crates/fileslug and slugr): the filename slug pipeline *)
(* (split_extension, preserve_version_dots, truncate_base, slugify) and    *)
(* the collision-safe rename (same_file, safe_target, rename_file).        *)
(*                                                                         *)
(* A string is a sequence of characters.  A character is written as a      *)
(* one-element token: ASCII characters stand for themselves, "SOH" is the  *)
(* control character U+0001, and the non-ASCII characters are named by     *)
(* their code point: U00E9 (e acute), U00C9 (E acute), U0130 (capital I    *)
(* with dot above), U0307 (combining dot above), U4F60 (a CJK ideograph).  *)
(* Byte lengths are those of the UTF-8 encoding, since the code measures   *)
(* and cuts strings in bytes.                                              *)
(***************************************************************************)
EXTENDS Integers, Sequences, FiniteSets, TLC

VARIABLES
    input,          \* the string handed to split_extension or slugify
    style,          \* SlugifyOptions.style
    keep_unicode,   \* SlugifyOptions.keep_unicode
    op,             \* which function has been applied: "none", "slugify", ...
    out,            \* the result of the first application
    out2,           \* the result of applying slugify or split_extension to out
    fs,             \* the directory: key -> directory entry
    foldCase,       \* TRUE on a case-insensitive filesystem
    bulkTop,        \* the files a-2.t .. a-<bulkTop>.t exist as plain files
    pre,            \* the directory before the last call
    last,           \* the last call: its arguments and its result
    calls,          \* the number of rename_file calls made
    batch,          \* the run of main over a list of paths
    pipe,           \* the run of run_pipe over the lines of stdin
    race            \* a rename_file call in steps, beside another process

vars ==
    <<input, style, keep_unicode, op, out, out2, fs, foldCase, bulkTop, pre, last, calls,
      batch, pipe, race>>
driverVars == <<batch, pipe, race>>
slugVars == <<input, style, keep_unicode, op, out, out2>>
fsVars == <<fs, foldCase, bulkTop, pre, last, calls>>

(***************************************************************************)
(* Characters                                                              *)
(***************************************************************************)
AsciiLower == {"a", "b", "e", "g", "i", "n", "r", "s", "t", "x", "z"}
AsciiUpper == {"A", "B", "E", "G", "I", "N", "R", "S", "T", "X", "Z"}
AsciiDigits == {"0", "1", "2", "3", "4", "5", "6", "7", "8", "9"}
Brackets == {"(", ")", "[", "]", "{", "}"}

\* Placeholder byte used to protect dots inside version numbers.
VERSION_DOT == "SOH"

AsciiOther == {".", "-", "_", " ", "$", "/", VERSION_DOT} \cup Brackets
AsciiChars == AsciiLower \cup AsciiUpper \cup AsciiDigits \cup AsciiOther
WideChars == {"U00E9", "U00C9", "U0130", "U0307", "U4F60"}
Chars == AsciiChars \cup WideChars

\* The characters the shell treats specially, among the model's characters.
ShellMeta == {"$", "(", ")"}

\* char::len_utf8
Utf8Len(c) ==
    IF c \in AsciiChars THEN 1
    ELSE IF c = "U4F60" THEN 3
    ELSE 2

\* u8::is_ascii_digit / char::is_ascii_alphanumeric / char::is_alphanumeric
IsAsciiDigit(c) == c \in AsciiDigits
IsAsciiAlphanumeric(c) == c \in AsciiLower \cup AsciiUpper \cup AsciiDigits
IsAlphanumeric(c) ==
    IsAsciiAlphanumeric(c) \/ c \in {"U00E9", "U00C9", "U0130", "U4F60"}

LowerPairs ==
    {<<"A", "a">>, <<"B", "b">>, <<"E", "e">>, <<"G", "g">>, <<"I", "i">>,
     <<"N", "n">>, <<"R", "r">>, <<"S", "s">>, <<"T", "t">>, <<"X", "x">>,
     <<"Z", "z">>, <<"U00C9", "U00E9">>}

\* char::to_lowercase: one character may lower-case to several
\* (U+0130 gives "i" followed by the combining dot U+0307).
CharToLower(c) ==
    IF c = "U0130" THEN <<"i", "U0307">>
    ELSE IF \E p \in LowerPairs : p[1] = c
         THEN <<(CHOOSE p \in LowerPairs : p[1] = c)[2]>>
         ELSE <<c>>

\* char::to_uppercase
CharToUpper(c) ==
    IF \E p \in LowerPairs : p[2] = c
    THEN <<(CHOOSE p \in LowerPairs : p[2] = c)[1]>>
    ELSE <<c>>

\* any_ascii::any_ascii on one character: ASCII is kept, the rest is
\* transliterated (a CJK ideograph to a capitalised syllable and a space,
\* a combining mark to nothing).
CharAnyAscii(c) ==
    CASE c \in AsciiChars -> <<c>>
      [] c = "U00E9" -> <<"e">>
      [] c = "U00C9" -> <<"E">>
      [] c = "U0130" -> <<"I">>
      [] c = "U0307" -> <<>>
      [] c = "U4F60" -> <<"N", "i", " ">>

(***************************************************************************)
(* Loops and strings.  The loops of the code run over strings of several   *)
(* hundred bytes, so their models split the range in halves: the elements  *)
(* are visited in the code's order, and a search stops at the first hit.   *)
(***************************************************************************)
\* The concatenation of F(lo), F(lo + 1), ..., F(hi).
RECURSIVE ConcatMap(_, _, _)
ConcatMap(F(_), lo, hi) ==
    IF lo > hi THEN <<>>
    ELSE IF lo = hi THEN F(lo)
    ELSE LET mid == (lo + hi) \div 2
         IN ConcatMap(F, lo, mid) \o ConcatMap(F, mid + 1, hi)

\* The sum of F(lo), ..., F(hi).
RECURSIVE SumMap(_, _, _)
SumMap(F(_), lo, hi) ==
    IF lo > hi THEN 0
    ELSE IF lo = hi THEN F(lo)
    ELSE LET mid == (lo + hi) \div 2
         IN SumMap(F, lo, mid) + SumMap(F, mid + 1, hi)

\* Iterator::find over lo..hi: the first k with P(k), trying lo, lo + 1, ...
\* in turn and stopping at the first hit; hi + 1 when there is none.
RECURSIVE FirstIn(_, _, _)
FirstIn(P(_), lo, hi) ==
    IF lo > hi THEN hi + 1
    ELSE IF lo = hi THEN (IF P(lo) THEN lo ELSE hi + 1)
    ELSE LET mid == (lo + hi) \div 2
             left == FirstIn(P, lo, mid)
         IN IF left <= mid THEN left ELSE FirstIn(P, mid + 1, hi)

\* The same from the right (rfind, rev().find): the last k in lo..hi with
\* P(k), trying hi, hi - 1, ... in turn; lo - 1 when there is none.
RECURSIVE LastIn(_, _, _)
LastIn(P(_), lo, hi) ==
    IF lo > hi THEN lo - 1
    ELSE IF lo = hi THEN (IF P(lo) THEN lo ELSE lo - 1)
    ELSE LET mid == (lo + hi) \div 2
             right == LastIn(P, mid + 1, hi)
         IN IF right > mid THEN right ELSE LastIn(P, lo, mid)

\* Body applied to the value of v, which is computed once.
Bind(v, Body(_)) == CHOOSE r \in {Body(x) : x \in {v}} : TRUE

\* n rounds of a loop whose body is Step (Step leaves a finished state as
\* it is).
RECURSIVE Iterate(_, _, _)
Iterate(Step(_), st, n) ==
    IF n <= 0 THEN st
    ELSE IF n = 1 THEN Step(st)
    ELSE LET half == Iterate(Step, st, n \div 2)
         IN \* the test makes the first half run before the second starts
            IF half = half THEN Iterate(Step, half, n - (n \div 2)) ELSE st

\* str::len: the length in bytes
ByteLen(s) == SumMap(LAMBDA k : Utf8Len(s[k]), 1, Len(s))

\* str::to_lowercase, any_ascii::any_ascii
ToLowercase(s) == ConcatMap(LAMBDA k : CharToLower(s[k]), 1, Len(s))
AnyAscii(s) == ConcatMap(LAMBDA k : CharAnyAscii(s[k]), 1, Len(s))

StartsWith(s, p) == Len(p) <= Len(s) /\ SubSeq(s, 1, Len(p)) = p
EndsWith(s, p) == Len(p) <= Len(s) /\ SubSeq(s, Len(s) - Len(p) + 1, Len(s)) = p
Contains(s, c) == \E k \in 1..Len(s) : s[k] = c

\* The number of characters of s that end at or before byte offset b
\* (lo characters are known to fit, more than hi are known not to).
RECURSIVE CharsWithin(_, _, _, _)
CharsWithin(s, b, lo, hi) ==
    IF lo >= hi THEN lo
    ELSE LET mid == (lo + hi + 1) \div 2
         IN IF ByteLen(SubSeq(s, 1, mid)) <= b
            THEN CharsWithin(s, b, mid, hi)
            ELSE CharsWithin(s, b, lo, mid - 1)

\* The byte offset at which character k of s starts (k = Len(s) + 1: its end).
ByteOffset(s, k) == ByteLen(SubSeq(s, 1, k - 1))

\* str::is_char_boundary
IsCharBoundary(s, b) ==
    b >= 0 /\ b <= ByteLen(s) /\ ByteOffset(s, CharsWithin(s, b, 0, Len(s)) + 1) = b

\* What a slice at a byte offset inside a character does: the thread panics.
PANIC == <<"panic">>

\* &s[..b] and &s[b..]
SliceTo(s, b) ==
    IF IsCharBoundary(s, b) THEN SubSeq(s, 1, CharsWithin(s, b, 0, Len(s))) ELSE PANIC
SliceFrom(s, b) ==
    IF IsCharBoundary(s, b)
    THEN SubSeq(s, CharsWithin(s, b, 0, Len(s)) + 1, Len(s))
    ELSE PANIC

\* str::rfind of one of the characters of set cs: the byte offset of the last
\* occurrence, or -1 for None.
RFind(s, cs) ==
    LET k == LastIn(LAMBDA j : s[j] \in cs, 1, Len(s))
    IN IF k = 0 THEN -1 ELSE ByteOffset(s, k)

\* str::replace(chars, with): every character of cs becomes the character w.
ReplaceChars(s, cs, w) == [k \in 1..Len(s) |-> IF s[k] \in cs THEN w ELSE s[k]]

(***************************************************************************)
(* fileslug: split_extension                                               *)
(***************************************************************************)
COMPOUND ==
    << <<".", "t", "a", "r", ".", "g", "z">>,
       <<".", "t", "a", "r", ".", "b", "z", "2">>,
       <<".", "t", "a", "r", ".", "x", "z">>,
       <<".", "t", "a", "r", ".", "z", "s", "t">> >>

\* The split at the first compound extension, from the k-th on, that the
\* lower-cased name ends with; <<>> when none matches.
RECURSIVE CompoundSplit(_, _, _)
CompoundSplit(filename, lower, k) ==
    IF k > Len(COMPOUND) THEN <<>>
    ELSE IF EndsWith(lower, COMPOUND[k])
         THEN LET base_end == ByteLen(filename) - ByteLen(COMPOUND[k])
              IN <<SliceTo(filename, base_end), SliceFrom(filename, base_end)>>
         ELSE CompoundSplit(filename, lower, k + 1)

\* split_extension without its first rule (a leading dot and no other dot).
SplitExtensionNoDotfileRule(filename) ==
    LET compound == CompoundSplit(filename, ToLowercase(filename), 1)
        pos == RFind(filename, {"."})
    IN IF compound # <<>> THEN compound
       ELSE IF pos > 0 THEN <<SliceTo(filename, pos), SliceFrom(filename, pos)>>
       ELSE <<filename, <<>> >>

\* split_extension cutting at filename.chars().count() - ext.chars().count().
SplitExtensionCharOffsets(filename) ==
    LET lower == ToLowercase(filename)
        hit == {k \in 1..Len(COMPOUND) : EndsWith(lower, COMPOUND[k])}
        pos == RFind(filename, {"."})
    IN IF StartsWith(filename, <<".">>) /\ ~Contains(Tail(filename), ".")
       THEN << <<>>, filename>>
       ELSE IF hit # {}
       THEN LET ext == COMPOUND[CHOOSE k \in hit : \A j \in hit : k <= j]
                base_end == Len(filename) - Len(ext)
            IN <<SliceTo(filename, base_end), SliceFrom(filename, base_end)>>
       ELSE IF pos > 0 THEN <<SliceTo(filename, pos), SliceFrom(filename, pos)>>
       ELSE <<filename, <<>> >>

\* split_extension giving a compound extension in lower case.
SplitExtensionLowercased(filename) ==
    LET lower == ToLowercase(filename)
        compound == CompoundSplit(lower, lower, 1)
        pos == RFind(filename, {"."})
    IN IF StartsWith(filename, <<".">>) /\ ~Contains(Tail(filename), ".")
       THEN << <<>>, filename>>
       ELSE IF compound # <<>> THEN compound
       ELSE IF pos > 0 THEN <<SliceTo(filename, pos), SliceFrom(filename, pos)>>
       ELSE <<filename, <<>> >>

\* split_extension(filename) = <<base, extension>>
SplitExtension(filename) ==
    LET compound == CompoundSplit(filename, ToLowercase(filename), 1)
        pos == RFind(filename, {"."})
    IN IF StartsWith(filename, <<".">>) /\ ~Contains(Tail(filename), ".")
       THEN << <<>>, filename>>
       ELSE IF compound # <<>> THEN compound
       ELSE IF pos > 0 THEN <<SliceTo(filename, pos), SliceFrom(filename, pos)>>
       ELSE <<filename, <<>> >>

(***************************************************************************)
(* fileslug: preserve_version_dots, restore_version_dots                   *)
(***************************************************************************)
\* while i < len && bytes[i].is_ascii_digit() { i += 1 }   (i is 1-based)
SkipDigits(s, i) == FirstIn(LAMBDA k : ~IsAsciiDigit(s[k]), i, Len(s))

\* One round of the loop that consumes .digits groups; g = [i, dot_count,
\* done].
DotGroupStep(s, g) ==
    IF g.done \/ ~(g.i <= Len(s) /\ s[g.i] = ".") THEN [g EXCEPT !.done = TRUE]
    ELSE IF g.i + 1 <= Len(s) /\ IsAsciiDigit(s[g.i + 1])
         THEN [i |-> SkipDigits(s, g.i + 1), dot_count |-> g.dot_count + 1,
               done |-> FALSE]
         ELSE [g EXCEPT !.done = TRUE]     \* i = dot_pos: backtrack, break

\* One round of the outer loop of preserve_version_dots; st = [i, result].
\* The code walks bytes; a digit or a dot is one byte and every other
\* character is pushed whole, so the walk visits exactly the characters.
PreserveStep(s, st) ==
    IF st.i > Len(s) THEN st
    ELSE IF IsAsciiDigit(s[st.i])
    THEN LET start == st.i
             first == SkipDigits(s, st.i)
             g == Iterate(LAMBDA x : DotGroupStep(s, x),
                          [i |-> first, dot_count |-> 0, done |-> FALSE],
                          (Len(s) - first) \div 2 + 1)
             span == SubSeq(s, start, g.i - 1)
         IN [i |-> g.i,
             result |-> st.result \o (IF g.dot_count >= 1
                                      THEN [k \in 1..Len(span) |->
                                               IF span[k] = "." THEN VERSION_DOT
                                               ELSE span[k]]
                                      ELSE span)]
    ELSE [i |-> st.i + 1, result |-> Append(st.result, s[st.i])]

\* No dot protected.
PreserveNoDots(s) == s

\* Every dot protected.
PreserveEveryDot(s) == ReplaceChars(s, {"."}, VERSION_DOT)

PreserveVersionDots(s) ==
    Iterate(LAMBDA st : PreserveStep(s, st), [i |-> 1, result |-> <<>>], Len(s)).result

RestoreVersionDots(s) == ReplaceChars(s, {VERSION_DOT}, ".")

(***************************************************************************)
(* fileslug: truncate_base                                                 *)
(***************************************************************************)
\* Maximum filename length in bytes (common filesystem limit).
MAX_FILENAME_BYTES == 255

\* usize::saturating_sub
SaturatingSub(a, b) == IF a >= b THEN a - b ELSE 0

\* truncate_base cutting at the budget in characters.
TruncateBaseNoFloor(base, ext, max_bytes) ==
    LET budget == SaturatingSub(max_bytes, ByteLen(ext))
    IN IF ByteLen(base) <= budget THEN base
       ELSE LET truncated == SubSeq(base, 1, budget)
                pos == RFind(truncated, {"-", "_"})
            IN IF pos > 0 THEN SliceTo(truncated, pos) ELSE truncated

\* truncate_base with the whole of max_bytes as the budget of the base.
TruncateBaseIgnoringExt(base, ext, max_bytes) ==
    LET budget == max_bytes
    IN IF ByteLen(base) <= budget THEN base
       ELSE LET truncated == SubSeq(base, 1, CharsWithin(base, budget, 0, Len(base)))
                pos == RFind(truncated, {"-", "_"})
            IN IF pos > 0 THEN SliceTo(truncated, pos) ELSE truncated

\* truncate_base without the cut at the last separator.
TruncateBaseHardCut(base, ext, max_bytes) ==
    LET budget == SaturatingSub(max_bytes, ByteLen(ext))
    IN IF ByteLen(base) <= budget THEN base
       ELSE LET found == LastIn(LAMBDA i : IsCharBoundary(base, i), 0, budget)
            IN SliceTo(base, IF found >= 0 THEN found ELSE 0)

TruncateBase(base, ext, max_bytes) ==
    LET budget == SaturatingSub(max_bytes, ByteLen(ext))
    IN IF ByteLen(base) <= budget THEN base
       ELSE \* floor to a char boundary: (0..=budget).rev().find(..).unwrap_or(0)
            LET found == LastIn(LAMBDA i : IsCharBoundary(base, i), 0, budget)
                floor == IF found >= 0 THEN found ELSE 0
                truncated == SliceTo(base, floor)
                pos == RFind(truncated, {"-", "_"})
            IN IF pos > 0 THEN SliceTo(truncated, pos) ELSE truncated
(***************************************************************************)
(* fileslug: slugify                                                       *)
(***************************************************************************)
Styles == {"Kebab", "Snake", "Camel"}

\* base.split(|c| !is_word(c) && c != VERSION_DOT).filter(|s| !s.is_empty())
\*     .map(str::to_lowercase).collect()
\* One character of the scan; w = [i, cur, words], cur the segment being read.
SplitStep(s, ku, w) ==
    IF w.i > Len(s) THEN w
    ELSE IF (IF ku THEN IsAlphanumeric(s[w.i]) ELSE IsAsciiAlphanumeric(s[w.i]))
            \/ s[w.i] = VERSION_DOT
    THEN [w EXCEPT !.i = w.i + 1, !.cur = Append(w.cur, s[w.i])]
    ELSE [i |-> w.i + 1, cur |-> <<>>,
          words |-> IF w.cur = <<>> THEN w.words
                    ELSE Append(w.words, ToLowercase(w.cur))]

SplitWords(s, ku) ==
    LET w == Iterate(LAMBDA x : SplitStep(s, ku, x),
                     [i |-> 1, cur |-> <<>>, words |-> <<>>], Len(s))
    IN IF w.cur = <<>> THEN w.words ELSE Append(w.words, ToLowercase(w.cur))

\* The words joined with the separator before and after every word but the
\* first.
JoinTrailing(words, sep) ==
    ConcatMap(LAMBDA k : IF k = 1 THEN words[k] ELSE sep \o words[k] \o sep,
              1, Len(words))

\* words.join(sep)
Join(words, sep) ==
    ConcatMap(LAMBDA k : IF k = 1 THEN words[k] ELSE sep \o words[k], 1, Len(words))

\* The Camel arm: the first word as it is, every later word with its first
\* character upper-cased.
CamelJoin(words) ==
    ConcatMap(LAMBDA k : IF k = 1 THEN words[k]
                         ELSE CharToUpper(Head(words[k])) \o Tail(words[k]),
              1, Len(words))

JoinWords(words, st) ==
    CASE st = "Kebab" -> Join(words, <<"-">>)
      [] st = "Snake" -> Join(words, <<"_">>)
      [] st = "Camel" -> CamelJoin(words)

\* Steps 2 to 5b of slugify, shared with slugify_string: transliterate, strip
\* brackets, protect version dots, collect words, join, restore version dots.
\* <<>> when no word is left (a joined text is never empty otherwise).
SlugWords(text, ku) ==
    SplitWords(PreserveVersionDots(
                   ReplaceChars(IF ku THEN text ELSE AnyAscii(text), Brackets, " ")),
               ku)

\* slugify with the empty string for a base of no words.
SlugifyNoWordsEmpty(filename, st, ku) ==
    IF filename = <<>> THEN <<>>
    ELSE LET sp == SplitExtension(filename)
             base == sp[1]
             ext == sp[2]
         IN IF base = PANIC THEN PANIC
            ELSE IF base = <<>> THEN filename
            ELSE LET is_dotfile == StartsWith(base, <<".">>)
                     words == SlugWords(base, ku)
                 IN IF words = <<>> THEN <<>>
                    ELSE LET joined == RestoreVersionDots(JoinWords(words, st))
                             slugified == IF is_dotfile THEN <<".">> \o joined
                                          ELSE joined
                         IN TruncateBase(slugified, ext, MAX_FILENAME_BYTES) \o ext

\* slugify with the extension lower-cased.
SlugifyLowerExt(filename, st, ku) ==
    IF filename = <<>> THEN <<>>
    ELSE LET sp == SplitExtension(filename)
             base == sp[1]
             ext == sp[2]
         IN IF base = PANIC THEN PANIC
            ELSE IF base = <<>> THEN filename
            ELSE LET is_dotfile == StartsWith(base, <<".">>)
                     words == SlugWords(base, ku)
                 IN IF words = <<>> THEN ext
                    ELSE LET joined == RestoreVersionDots(JoinWords(words, st))
                             slugified == IF is_dotfile THEN <<".">> \o joined
                                          ELSE joined
                         IN TruncateBase(slugified, ext, MAX_FILENAME_BYTES)
                            \o ToLowercase(ext)

Slugify(filename, st, ku) ==
    IF filename = <<>> THEN <<>>
    ELSE LET sp == SplitExtension(filename)
             base == sp[1]
             ext == sp[2]
         IN IF base = PANIC THEN PANIC
            ELSE IF base = <<>> THEN filename
            ELSE LET is_dotfile == StartsWith(base, <<".">>)
                     words == SlugWords(base, ku)
                 IN IF words = <<>> THEN ext
                    ELSE LET joined == RestoreVersionDots(JoinWords(words, st))
                             slugified == IF is_dotfile THEN <<".">> \o joined
                                          ELSE joined
                         IN TruncateBase(slugified, ext, MAX_FILENAME_BYTES) \o ext

\* slugify_string without the truncation.
SlugifyStringWhole(text, st, ku) ==
    IF text = <<>> THEN <<>>
    ELSE LET words == SlugWords(text, ku)
         IN IF words = <<>> THEN <<>>
            ELSE RestoreVersionDots(JoinWords(words, st))

\* slugify_string(input, options): the whole input is plain text, with no
\* extension and no dotfile rule.
SlugifyString(text, st, ku) ==
    IF text = <<>> THEN <<>>
    ELSE LET words == SlugWords(text, ku)
         IN IF words = <<>> THEN <<>>
            ELSE TruncateBase(RestoreVersionDots(JoinWords(words, st)), <<>>,
                              MAX_FILENAME_BYTES)
(***************************************************************************)
(* The filesystem: one directory.  fs maps the key of a name (the name     *)
(* itself, or the name with its case folded on a case-insensitive          *)
(* filesystem) to the directory entry: a file, which is an inode number    *)
(* (two entries with the same number are hard links to one file, and the   *)
(* number stands for the file's content), or a symbolic link to a name.    *)
(* Besides, the plain files a-2.t, ..., a-<bulkTop>.t exist, each with an   *)
(* inode of its own, unless fs says otherwise for that key (kind "absent": *)
(* the file was renamed away).                                             *)
(***************************************************************************)
None == <<"None">>

Key(p) == IF foldCase THEN ToLowercase(p) ELSE p

\* The decimal digits of n, as format!("{n}") writes them.
DigitOf(d) == CHOOSE c \in AsciiDigits : \E k \in 0..9 :
                  d = k /\ c = <<"0", "1", "2", "3", "4", "5", "6", "7", "8", "9">>[k + 1]
RECURSIVE Decimal(_)
Decimal(n) == IF n < 10 THEN <<DigitOf(n)>> ELSE Append(Decimal(n \div 10), DigitOf(n % 10))

\* The number a digit string reads as; 0 when it is not the decimal form of
\* a positive number.
DigitValue(c) == CHOOSE k \in 0..9 : DigitOf(k) = c
RECURSIVE DecimalValue(_)
DecimalValue(d) ==
    IF d = <<>> \/ (\E k \in 1..Len(d) : ~IsAsciiDigit(d[k])) \/ d[1] = "0" THEN 0
    ELSE IF Len(d) = 1 THEN DigitValue(d[1])
    ELSE 10 * DecimalValue(SubSeq(d, 1, Len(d) - 1)) + DigitValue(d[Len(d)])

BulkBase == <<"a">>
BulkExt == <<".", "t">>

\* n when key is a-<n>.t for one of the bulk files, else 0.
BulkNumber(top, key) ==
    IF StartsWith(key, BulkBase \o <<"-">>) /\ EndsWith(key, BulkExt)
       /\ Len(key) > Len(BulkBase) + 1 + Len(BulkExt)
    THEN LET n == DecimalValue(SubSeq(key, Len(BulkBase) + 2, Len(key) - Len(BulkExt)))
         IN IF 2 <= n /\ n <= top THEN n ELSE 0
    ELSE 0

NoEntry == [kind |-> "absent"]
\* The inode of the bulk file a-<n>.t, apart from every other inode.
BulkIno(n) == 2000 + n

\* The directory entry a name denotes (symbolic links not followed).
Lookup(f, top, p) ==
    LET key == Key(p)
    IN IF key \in DOMAIN f THEN f[key]
       ELSE IF BulkNumber(top, key) # 0
            THEN [kind |-> "file", name |-> key, ino |-> BulkIno(BulkNumber(top, key))]
            ELSE NoEntry

\* fs::metadata(p): the inode p resolves to, symbolic links followed; 0 for
\* an error (no such entry, a dangling link, a loop of links).
RECURSIVE Metadata(_, _, _, _)
Metadata(f, top, p, fuel) ==
    LET e == Lookup(f, top, p)
    IN CASE e.kind = "absent" -> 0
         [] e.kind \in {"file", "dir"} -> e.ino
         [] e.kind = "symlink" -> IF fuel = 0 THEN 0 ELSE Metadata(f, top, e.to, fuel - 1)

\* Path::file_name, Path::parent and Path::join; a path is its components
\* joined by "/", and the parent of a single component is the empty path.
LastSlash(p) == LastIn(LAMBDA k : p[k] = "/", 1, Len(p))
FileName(p) == SubSeq(p, LastSlash(p) + 1, Len(p))
Parent(p) == SubSeq(p, 1, LastSlash(p) - 1)
JoinPath(parent, name) == IF parent = <<>> THEN name ELSE parent \o <<"/">> \o name

\* An existence check that sees nothing.
ExistsNever(f, top, p) == FALSE

\* Path::exists
Exists(f, top, p) == Metadata(f, top, p, Cardinality(DOMAIN f)) # 0

(***************************************************************************)
(* slugr: same_file, safe_target, rename_file                              *)
(***************************************************************************)
\* same_file (not unix): the paths are equal.
SameFileByPath(f, top, a, b) == a = b

\* same_file (unix): both paths resolve, to the same inode of the one device.
SameFile(f, top, a, b) ==
    LET ma == Metadata(f, top, a, Cardinality(DOMAIN f))
        mb == Metadata(f, top, b, Cardinality(DOMAIN f))
    IN ma # 0 /\ mb # 0 /\ ma = mb

\* Maximum number of collision suffixes to try before giving up.
MAX_COLLISION_SUFFIX == 1000

\* collides without the exclusion of the source.
CollidesIgnoringSource(f, top, source, p) == Exists(f, top, p)

\* The closure collides of safe_target.
Collides(f, top, source, p) ==
    Exists(f, top, p) /\ ~(source # None /\ SameFile(f, top, source, p))

\* format_candidate without the branch for an empty base.
FormatCandidateBaseFirst(base, ext, n) == base \o <<"-">> \o Decimal(n) \o ext

\* The closure format_candidate of safe_target, for the base and extension
\* of the target's file name.
FormatCandidate(base, ext, n) ==
    IF base = <<>> THEN ext \o <<"-">> \o Decimal(n)
    ELSE base \o <<"-">> \o Decimal(n) \o ext

\* safe_target over the range 2..=MAX_COLLISION_SUFFIX.
SafeTargetShortRange(f, top, target, no_clobber, source) ==
    IF ~no_clobber THEN [ok |-> TRUE, path |-> target, checks |-> 0]
    ELSE IF ~Collides(f, top, source, target)
    THEN [ok |-> TRUE, path |-> target, checks |-> 1]
    ELSE Bind(SplitExtension(FileName(target)), LAMBDA sp :
           Bind(FirstIn(LAMBDA k : ~Collides(f, top, source,
                                             JoinPath(Parent(target),
                                                      FormatCandidate(sp[1], sp[2], k))),
                        2, MAX_COLLISION_SUFFIX),
                LAMBDA n :
                  IF n <= MAX_COLLISION_SUFFIX
                  THEN [ok |-> TRUE,
                        path |-> JoinPath(Parent(target),
                                          FormatCandidate(sp[1], sp[2], n)),
                        checks |-> n]
                  ELSE [ok |-> FALSE, error |-> "AlreadyExists",
                        checks |-> MAX_COLLISION_SUFFIX]))

\* safe_target(target, no_clobber, source) on directory f: ok and the path,
\* or the error; checks counts the calls of collides.
SafeTarget(f, top, target, no_clobber, source) ==
    IF ~no_clobber THEN [ok |-> TRUE, path |-> target, checks |-> 0]
    ELSE IF ~Collides(f, top, source, target)
    THEN [ok |-> TRUE, path |-> target, checks |-> 1]
    ELSE Bind(SplitExtension(FileName(target)), LAMBDA sp :
           Bind(FirstIn(LAMBDA k : ~Collides(f, top, source,
                                             JoinPath(Parent(target),
                                                      FormatCandidate(sp[1], sp[2], k))),
                        2, MAX_COLLISION_SUFFIX + 1),
                LAMBDA n :
                  IF n <= MAX_COLLISION_SUFFIX + 1
                  THEN [ok |-> TRUE,
                        path |-> JoinPath(Parent(target),
                                          FormatCandidate(sp[1], sp[2], n)),
                        checks |-> n]
                  ELSE [ok |-> FALSE, error |-> "AlreadyExists",
                        checks |-> MAX_COLLISION_SUFFIX + 1]))

\* The directory without the entry of key.
RemoveKey(f, top, key) ==
    IF BulkNumber(top, key) # 0 THEN [k \in DOMAIN f \cup {key} |->
                                           IF k = key THEN NoEntry ELSE f[k]]
    ELSE [k \in DOMAIN f \ {key} |-> f[k]]

\* The directory with entry e under key.
PutKey(f, key, e) == [k \in DOMAIN f \cup {key} |-> IF k = key THEN e ELSE f[k]]

\* fs::rename that succeeds, doing nothing, when there is no source.
OsRenameSilent(f, top, from, to) ==
    LET src == Lookup(f, top, from)
        dst == Lookup(f, top, to)
    IN IF src.kind = "absent" THEN [ok |-> TRUE, fs |-> f]
       ELSE IF Key(from) = Key(to)
       THEN [ok |-> TRUE, fs |-> PutKey(f, Key(to), [src EXCEPT !.name = to])]
       ELSE IF src.kind = "file" /\ dst.kind = "file" /\ src.ino = dst.ino
       THEN [ok |-> TRUE, fs |-> f]
       ELSE [ok |-> TRUE,
             fs |-> PutKey(RemoveKey(f, top, Key(from)), Key(to),
                           [src EXCEPT !.name = to])]

\* The keys of the entries below the directory of key.
Below(f, key) == {k \in DOMAIN f : StartsWith(k, key \o <<"/">>) /\ k # key}
HasChildren(f, key) == \E k \in Below(f, key) : f[k].kind # "absent"

\* The directory with entry src moved from key fromK to key toK under the
\* name to, and what is below it moved along.
MoveEntry(f, top, fromK, toK, to, src) ==
    LET kids == Below(f, fromK)
        Rekey(k) == toK \o SubSeq(k, Len(fromK) + 1, Len(k))
        moved == PutKey(RemoveKey(f, top, fromK), toK, [src EXCEPT !.name = to])
        kept == DOMAIN moved \ kids
    IN [k \in kept \cup {Rekey(c) : c \in kids} |->
          IF k \in kept THEN moved[k]
          ELSE LET c == CHOOSE c \in kids : Rekey(c) = k
               IN [f[c] EXCEPT !.name = k]]

\* fs::rename(from, to), which is rename(2): the links themselves are
\* renamed, not what they point to.  No source, or no directory to hold
\* the target: an error.  Source and target the same directory entry (two
\* spellings on a case-insensitive filesystem): the entry takes the new
\* spelling.  Two hard links to one file: nothing happens, successfully.
\* A directory replaces only an empty directory, and only a directory
\* replaces a directory.  Any other existing target is replaced.
OsRename(f, top, from, to) ==
    LET src == Lookup(f, top, from)
        dst == Lookup(f, top, to)
    IN IF src.kind = "absent" THEN [ok |-> FALSE, error |-> "NotFound", fs |-> f]
       ELSE IF Parent(to) # <<>> /\ Lookup(f, top, Parent(to)).kind # "dir"
       THEN [ok |-> FALSE, error |-> "NotFound", fs |-> f]
       ELSE IF Key(from) = Key(to)
       THEN [ok |-> TRUE, fs |-> PutKey(f, Key(to), [src EXCEPT !.name = to])]
       ELSE IF src.kind = "file" /\ dst.kind = "file" /\ src.ino = dst.ino
       THEN [ok |-> TRUE, fs |-> f]
       ELSE IF src.kind = "dir" /\ dst.kind \notin {"absent", "dir"}
       THEN [ok |-> FALSE, error |-> "NotADirectory", fs |-> f]
       ELSE IF src.kind = "dir" /\ dst.kind = "dir" /\ HasChildren(f, Key(to))
       THEN [ok |-> FALSE, error |-> "DirectoryNotEmpty", fs |-> f]
       ELSE IF src.kind # "dir" /\ dst.kind = "dir"
       THEN [ok |-> FALSE, error |-> "IsADirectory", fs |-> f]
       ELSE [ok |-> TRUE, fs |-> MoveEntry(f, top, Key(from), Key(to), to, src)]

\* rename_file without the return on dry_run.
RenameFileAlways(f, top, source, target, no_clobber, dry_run) ==
    IF source = target
    THEN [result |-> [kind |-> "Skipped", path |-> source], fs |-> f]
    ELSE LET is_case_only == SameFile(f, top, source, target)
             st == IF is_case_only THEN [ok |-> TRUE, path |-> target, checks |-> 0]
                   ELSE SafeTarget(f, top, target, no_clobber, source)
         IN Bind(st, LAMBDA final_target :
              IF ~final_target.ok
              THEN [result |-> [kind |-> "Failed", path |-> source,
                                error |-> final_target.error],
                    fs |-> f]
              ELSE LET r == OsRename(f, top, source, final_target.path)
                   IN IF r.ok
                      THEN [result |-> [kind |-> "Renamed", from |-> source,
                                        to |-> final_target.path],
                            fs |-> r.fs]
                      ELSE [result |-> [kind |-> "Failed", path |-> source,
                                        error |-> r.error],
                            fs |-> f])

\* rename_file(source, target, no_clobber, dry_run) on directory f: the
\* RenameResult, the final target it settled on, and the directory after.
RenameFile(f, top, source, target, no_clobber, dry_run) ==
    IF source = target
    THEN [result |-> [kind |-> "Skipped", path |-> source], fs |-> f]
    ELSE LET is_case_only == SameFile(f, top, source, target)
             st == IF is_case_only THEN [ok |-> TRUE, path |-> target, checks |-> 0]
                   ELSE SafeTarget(f, top, target, no_clobber, source)
         IN Bind(st, LAMBDA final_target :
              IF ~final_target.ok
              THEN [result |-> [kind |-> "Failed", path |-> source,
                                error |-> final_target.error],
                    fs |-> f]
              ELSE IF dry_run
              THEN [result |-> [kind |-> "Renamed", from |-> source,
                                to |-> final_target.path],
                    fs |-> f]
              ELSE LET r == OsRename(f, top, source, final_target.path)
                   IN IF r.ok
                      THEN [result |-> [kind |-> "Renamed", from |-> source,
                                        to |-> final_target.path],
                            fs |-> r.fs]
                      ELSE [result |-> [kind |-> "Failed", path |-> source,
                                        error |-> r.error],
                            fs |-> f])

(***************************************************************************)
(* The renames applied to bounded directories                              *)
(***************************************************************************)
NameUpper == <<"A", ".", "t">>
NameLower == <<"a", ".", "t">>
NameDot == <<".", "t">>
NameTwo == FormatCandidate(<<"a">>, <<".", "t">>, 2)
NameMissing == <<"z">>

\* At most MaxCalls calls of rename_file are made on a directory.
MaxCalls == 2
\* The short chain: a-2.t .. a-<SmallChain>.t exist.
SmallChain == 3

File(n, i) == [kind |-> "file", name |-> n, ino |-> i]
Link(n, to) == [kind |-> "symlink", name |-> n, to |-> to]
Dangling(n) == Link(n, NameMissing)

\* What a directory may hold under each name at the start; "none" is no
\* entry of its own.
Unset == [kind |-> "unset"]
UpperChoices ==
    {Unset, File(NameUpper, 1), Dangling(NameUpper), Link(NameUpper, NameLower)}
LowerChoices == {Unset, File(NameLower, 1), File(NameLower, 2), Dangling(NameLower)}
DotChoices == {Unset, File(NameDot, 3)}
TwoChoices == {Unset, File(NameTwo, 1), NoEntry}

\* The directory holding the chosen entries; only a bulk file is recorded
\* as renamed away.
Directory(top, choice) ==
    LET named == {n \in DOMAIN choice :
                    /\ choice[n] # Unset
                    /\ choice[n] = NoEntry => BulkNumber(top, Key(n)) # 0}
    IN [k \in {Key(n) : n \in named} |-> choice[CHOOSE n \in named : Key(n) = k]]

\* main and run_pipe are not running.
driverIdle ==
    /\ batch = [pc |-> "idle"]
    /\ pipe = [pc |-> "idle"]
    /\ race = [pc |-> "idle"]

Init ==
    /\ driverIdle
    /\ foldCase \in BOOLEAN
    /\ \/ /\ bulkTop \in {1, SmallChain}
          /\ \E u \in UpperChoices, l \in LowerChoices, d \in DotChoices, t \in TwoChoices :
                /\ ~(foldCase /\ u # Unset /\ l # Unset)
                /\ fs = Directory(bulkTop, (NameUpper :> u) @@ (NameLower :> l)
                                   @@ (NameDot :> d) @@ (NameTwo :> t))
       \/ /\ bulkTop \in {MAX_COLLISION_SUFFIX, MAX_COLLISION_SUFFIX + 1}
          /\ ~foldCase
          /\ fs = Directory(bulkTop, (NameUpper :> File(NameUpper, 1))
                             @@ (NameLower :> File(NameLower, 2)))
    /\ pre = fs
    /\ last = [op |-> "none"]
    /\ calls = 0
    /\ input = <<>>
    /\ style = "Kebab"
    /\ keep_unicode = FALSE
    /\ op = "none"
    /\ out = <<>>
    /\ out2 = <<>>

\* The calls a directory gets: the directories of a thousand files get one.
Budget == IF bulkTop >= MAX_COLLISION_SUFFIX THEN 1 ELSE MaxCalls

Sources == {NameUpper, NameLower}
Targets == {NameLower, NameUpper, NameDot}

\* safe_target(target, no_clobber, source).  It leaves the directory as it
\* is, so it is explored as the last step of a behaviour.
CallSafeTarget(target, no_clobber, source) ==
    /\ calls < Budget
    /\ last.op # "safe_target"
    /\ last' = [op |-> "safe_target", target |-> target, no_clobber |-> no_clobber,
                source |-> source,
                ret |-> SafeTarget(fs, bulkTop, target, no_clobber, source)]
    /\ pre' = fs
    /\ UNCHANGED <<fs, foldCase, bulkTop, calls, slugVars, driverVars>>

\* rename_file(source, target, no_clobber, dry_run)
CallRenameFile(source, target, no_clobber, dry_run) ==
    /\ calls < Budget
    /\ last.op # "safe_target"
    /\ \E r \in {RenameFile(fs, bulkTop, source, target, no_clobber, dry_run)} :
          /\ fs' = r.fs
          /\ last' = [op |-> "rename_file", source |-> source, target |-> target,
                      no_clobber |-> no_clobber, dry_run |-> dry_run,
                      result |-> r.result]
    /\ pre' = fs
    /\ calls' = calls + 1
    /\ UNCHANGED <<foldCase, bulkTop, slugVars, driverVars>>

Next ==
    \/ \E t \in Targets, nc \in BOOLEAN, s \in Sources \cup {None} :
          CallSafeTarget(t, nc, s)
    \/ \E s \in Sources, t \in Targets, nc \in BOOLEAN, dry \in BOOLEAN :
          CallRenameFile(s, t, nc, dry)

Spec == Init /\ [][Next]_vars

(***************************************************************************)
(* The pure functions applied to bounded inputs                            *)
(***************************************************************************)
\* A short input is made of at most MaxPieces pieces.
MaxPieces == 3

Pieces ==
    { <<"a">>, <<"A">>, <<"1">>, <<".">>, <<" ">>, <<"(">>,
      <<"U0130">>, <<"U4F60">>, <<".", "T", "A", "R">>, <<".", "g", "z">> }

RECURSIVE PieceStrings(_)
PieceStrings(n) ==
    IF n = 0 THEN {<<>>}
    ELSE LET shorter == PieceStrings(n - 1)
         IN shorter \cup {s \o p : s \in shorter, p \in Pieces}

\* A long input is a head, a unit repeated, and a tail; LongRun repetitions
\* are more than a filename may hold.
LongRun == 300

Repeat(unit, n) == [k \in 1..(n * Len(unit)) |-> unit[((k - 1) % Len(unit)) + 1]]

LongUnits == {<<"a">>, <<"a", " ">>, <<"1", ".">>, <<"U00E9">>, <<"U4F60">>}
LongTails == {<<>>, <<".", "t">>, <<".", "t", "t">>, <<".", "t", "a", "r", ".", "g", "z">>}

LongInputs ==
    \* a long base, with and without an extension
    {Repeat(u, LongRun) \o t : u \in LongUnits, t \in LongTails}
    \* a long pure dotfile, a long extension
    \cup {h \o Repeat(<<"a">>, LongRun) : h \in {<<".">>, <<"a", ".">>}}
    \* names of one byte less than the limit, and of exactly the limit
    \cup {Repeat(u, n) \o <<".", "t">> :
             u \in {<<"a">>, <<"U00E9">>},
             n \in {MAX_FILENAME_BYTES - 3, MAX_FILENAME_BYTES - 2}}

\* Names with version numbers in them: a head, digit runs and dots, a tail.
VersionHeads == {<<>>, <<"a">>, <<"A", "-">>, <<"a", " ">>, <<".">>, <<".", "a">>}
VersionRuns ==
    { <<"1", ".", "2">>, <<"1", ".", "2", ".", "3">>, <<"7", ".", "2", "0">>,
      <<"1", ".", ".", "2">>, <<"1", ".", "a", ".", "2">>,
      <<"1", ".", "2", "-", "3", ".", "4">>, <<"1", ".", "2", "b">> }
VersionTails == {<<>>, <<".", "t">>, <<".", "t", "a", "r", ".", "g", "z">>, <<" ", "b", ".", "t">>}
VersionInputs == {h \o r \o t : h \in VersionHeads, r \in VersionRuns, t \in VersionTails}

Inputs == PieceStrings(MaxPieces) \cup LongInputs \cup VersionInputs

fsIdle ==
    /\ fs = <<>>
    /\ foldCase = FALSE
    /\ bulkTop = 0
    /\ pre = <<>>
    /\ last = [op |-> "none"]
    /\ calls = 0

SlugInit ==
    /\ input \in Inputs
    /\ style \in Styles
    /\ keep_unicode \in BOOLEAN
    /\ op = "none"
    /\ out = <<>>
    /\ out2 = <<>>
    /\ fsIdle
    /\ driverIdle

\* split_extension(input)
DoSplit ==
    /\ op = "none"
    /\ op' = "split"
    /\ out' = SplitExtension(input)
    /\ UNCHANGED <<input, style, keep_unicode, out2, fsVars, driverVars>>

\* slugify(input, options)
DoSlugify ==
    /\ op = "none"
    /\ op' = "slugify"
    /\ out' = Slugify(input, style, keep_unicode)
    /\ UNCHANGED <<input, style, keep_unicode, out2, fsVars, driverVars>>

\* slugify(slugify(input, options), options)
DoReslugify ==
    /\ op = "slugify"
    /\ op' = "reslugify"
    /\ out2' = Slugify(out, style, keep_unicode)
    /\ UNCHANGED <<input, style, keep_unicode, out, fsVars, driverVars>>

\* split_extension(slugify(input, options))
DoResplit ==
    /\ op = "slugify"
    /\ op' = "resplit"
    /\ out2' = SplitExtension(out)
    /\ UNCHANGED <<input, style, keep_unicode, out, fsVars, driverVars>>

\* slugify_string(input, options)
DoSlugifyString ==
    /\ op = "none"
    /\ op' = "slugify_string"
    /\ out' = SlugifyString(input, style, keep_unicode)
    /\ UNCHANGED <<input, style, keep_unicode, out2, fsVars, driverVars>>

\* The call truncate_base(&slugified, ext, MAX_FILENAME_BYTES) of
\* slugify(input, options); out2 keeps its arguments slugified and ext.
DoTruncate ==
    /\ op = "none"
    /\ \E sp \in {SplitExtension(input)} :
       \E words \in {SlugWords(sp[1], keep_unicode)} :
          /\ sp[1] # <<>>
          /\ words # <<>>
          /\ \E joined \in {RestoreVersionDots(JoinWords(words, style))} :
             \E slugified \in {IF StartsWith(sp[1], <<".">>) THEN <<".">> \o joined
                                ELSE joined} :
                /\ out' = TruncateBase(slugified, sp[2], MAX_FILENAME_BYTES)
                /\ out2' = <<slugified, sp[2]>>
    /\ op' = "truncate"
    /\ UNCHANGED <<input, style, keep_unicode, fsVars, driverVars>>

SlugNext ==
    \/ DoSplit
    \/ DoSlugify
    \/ DoReslugify
    \/ DoResplit
    \/ DoSlugifyString
    \/ DoTruncate

SlugSpec == SlugInit /\ [][SlugNext]_vars
(***************************************************************************)
(* preserve_version_dots and restore_version_dots on bounded texts, and    *)
(* the two pipelines on texts that hold the placeholder                    *)
(***************************************************************************)
\* A text has at most MaxText characters.
MaxText == 4

\* The texts of at most n characters out of a letter, a digit, the dot, a
\* separator and the placeholder itself.
RECURSIVE Texts(_)
Texts(n) ==
    IF n = 0 THEN {<<>>}
    ELSE LET shorter == Texts(n - 1)
         IN shorter \cup {Append(t, c) : t \in shorter,
                                           c \in {"a", "1", ".", "-", VERSION_DOT}}

GuardInit ==
    /\ fsIdle
    /\ driverIdle
    /\ input \in Texts(MaxText)
    /\ style = "Kebab"
    /\ keep_unicode = FALSE
    /\ op = "none"
    /\ out = <<>>
    /\ out2 = <<>>

\* preserve_version_dots(input)
DoPreserve ==
    /\ op = "none"
    /\ op' = "preserve"
    /\ out' = PreserveVersionDots(input)
    /\ UNCHANGED <<input, style, keep_unicode, out2, fsVars, driverVars>>

\* restore_version_dots(preserve_version_dots(input))
DoRestore ==
    /\ op = "preserve"
    /\ op' = "restore"
    /\ out2' = RestoreVersionDots(out)
    /\ UNCHANGED <<input, style, keep_unicode, out, fsVars, driverVars>>

\* slugify(input, options) with the options st and ku
GuardSlugify(st, ku) ==
    /\ op = "none"
    /\ op' = "slugify"
    /\ style' = st
    /\ keep_unicode' = ku
    /\ out' = Slugify(input, st, ku)
    /\ UNCHANGED <<input, out2, fsVars, driverVars>>

\* slugify_string(input, options) with the options st and ku
GuardSlugifyString(st, ku) ==
    /\ op = "none"
    /\ op' = "slugify_string"
    /\ style' = st
    /\ keep_unicode' = ku
    /\ out' = SlugifyString(input, st, ku)
    /\ UNCHANGED <<input, out2, fsVars, driverVars>>

GuardNext ==
    \/ DoPreserve
    \/ DoRestore
    \/ \E st \in Styles, ku \in BOOLEAN : GuardSlugify(st, ku)
    \/ \E st \in Styles, ku \in BOOLEAN : GuardSlugifyString(st, ku)

GuardSpec == GuardInit /\ [][GuardNext]_vars

(***************************************************************************)
(* slugr: collect_paths and the rename loop of main                        *)
(***************************************************************************)
PathA == <<"A">>
PathAB == <<"A", "/", "B">>
PathABE == <<"A", "/", "B", "/", "E">>
PathAe == <<"A", "/", "e">>
PathParen == <<"(">>
PathParenDot == <<"(", ".">>
PathLowerA == <<"a">>
PathZ == <<"Z">>

\* The order in which read_dir lists entries, or the reverse of it.
ReadDirOrder ==
    <<PathA, PathAB, PathABE, PathAe, PathParen, PathParenDot, PathLowerA, PathZ>>

Reverse(q) == [k \in 1..Len(q) |-> q[Len(q) + 1 - k]]

\* The entries of directory dir, as read_dir lists them.
Children(f, top, dir, rev) ==
    LET IsChild(p) == /\ Parent(p) = dir
                      /\ p # <<>>
                      /\ Lookup(f, top, p).kind # "absent"
    IN SelectSeq(IF rev THEN Reverse(ReadDirOrder) ELSE ReadDirOrder, IsChild)

\* Path::is_file
IsFile(f, top, p) == Lookup(f, top, p).kind = "file"

\* WalkDir::new(dir).contents_first(true), without dir itself: what is
\* below dir, each directory after its contents.
RECURSIVE Walk(_, _, _, _)
Walk(f, top, dir, rev) ==
    LET kids == Children(f, top, dir, rev)
    IN ConcatMap(LAMBDA k : (IF Lookup(f, top, kids[k]).kind = "dir"
                             THEN Walk(f, top, kids[k], rev) ELSE <<>>)
                            \o <<kids[k]>>,
                 1, Len(kids))

\* collect_paths(paths, recursive)
CollectPaths(f, top, paths, recursive, rev) ==
    ConcatMap(LAMBDA i :
                IF ~Exists(f, top, paths[i]) THEN <<>>
                ELSE IF ~recursive \/ IsFile(f, top, paths[i]) THEN <<paths[i]>>
                ELSE Walk(f, top, paths[i], rev),
              1, Len(paths))

\* Only the empty slug refused.
InvalidSlugEmptyOnly(new_name) == new_name = <<>>

\* The slugs that would resolve to the parent directory.
InvalidSlug(new_name) == new_name \in {<<>>, <<".">>, <<".", ".">>}

(***************************************************************************)
(* main applied to bounded lists of paths                                  *)
(***************************************************************************)
\* At most MaxBatch paths are given to main.
MaxBatch == 2

Dir(n, i) == [kind |-> "dir", name |-> n, ino |-> i]

\* The directory A with A/B/E and A/e in it, and beside it, or not, the
\* files "(" and "(." and the file a.
Tree(odd, lower) ==
    (PathA :> Dir(PathA, 10)) @@ (PathAB :> Dir(PathAB, 11))
    @@ (PathABE :> File(PathABE, 12)) @@ (PathAe :> File(PathAe, 13))
    @@ (IF odd THEN (PathParen :> File(PathParen, 14))
                    @@ (PathParenDot :> File(PathParenDot, 15))
        ELSE <<>>)
    @@ (IF lower THEN (PathLowerA :> File(PathLowerA, 16)) ELSE <<>>)

InputPaths == {PathA, PathAB, PathABE, PathAe, PathParen, PathParenDot, PathZ}

RECURSIVE PathLists(_)
PathLists(n) ==
    IF n = 0 THEN {<<>>}
    ELSE LET shorter == PathLists(n - 1)
         IN shorter \cup {Append(q, p) : q \in shorter, p \in InputPaths}

BatchInit ==
    /\ \E odd \in BOOLEAN, lower \in BOOLEAN : fs = Tree(odd, lower)
    /\ foldCase = FALSE
    /\ bulkTop = 1
    /\ pre = fs
    /\ last = [op |-> "none"]
    /\ calls = 0
    /\ input = <<>>
    /\ style = "Kebab"
    /\ keep_unicode = FALSE
    /\ op = "none"
    /\ out = <<>>
    /\ out2 = <<>>
    /\ pipe = [pc |-> "idle"]
    /\ race = [pc |-> "idle"]
    /\ \E files \in PathLists(MaxBatch), terminal \in BOOLEAN,
          recursive \in BOOLEAN, interactive \in BOOLEAN,
          dry_run \in BOOLEAN, no_clobber \in BOOLEAN :
          /\ terminal => files = <<>>
          /\ batch = [pc |-> "start", input_paths |-> files, terminal |-> terminal,
                      recursive |-> recursive, interactive |-> interactive,
                      dry_run |-> dry_run, no_clobber |-> no_clobber,
                      paths |-> <<>>, inos |-> <<>>, found |-> <<>>, i |-> 1,
                      had_error |-> FALSE, log |-> <<>>, exit |-> "none"]

batchFrame == UNCHANGED <<foldCase, bulkTop, pre, last, calls, slugVars, pipe, race>>

\* main: no file is named and stdin is a terminal
NoFiles ==
    /\ batch.pc = "start"
    /\ batch.input_paths = <<>> /\ batch.terminal
    /\ batch' = [batch EXCEPT !.pc = "exit", !.exit = "FAILURE"]
    /\ UNCHANGED fs
    /\ batchFrame

\* main: collect_paths(&input_paths, args.recursive).  batch.inos holds the
\* file each collected path denotes when it is collected (0: none).
Collect(rev) ==
    /\ batch.pc = "start"
    /\ ~(batch.input_paths = <<>> /\ batch.terminal)
    /\ \E paths \in {CollectPaths(fs, bulkTop, batch.input_paths, batch.recursive, rev)} :
          batch' = [batch EXCEPT
                      !.pc = "loop",
                      !.paths = paths,
                      !.inos = [k \in 1..Len(paths) |->
                                  Metadata(fs, bulkTop, paths[k], Cardinality(DOMAIN fs))]]
    /\ UNCHANGED fs
    /\ batchFrame

\* An item of the loop that ends before rename_file is called.
Item(path, outcome, f) ==
    [item |-> [path |-> path, outcome |-> outcome, called |-> FALSE], fs |-> f]

\* An item of the loop on which rename_file was called, with its result.
Called(path, target, r) ==
    [item |-> [path |-> path, outcome |-> r.result.kind, called |-> TRUE,
               target |-> target, result |-> r.result],
     fs |-> r.fs]

\* The loop stopping at the first item that is an error.
AdvanceAborting(b, item, found) ==
    [b EXCEPT !.i = IF item.outcome \in {"Invalid", "Failed"}
                    THEN Len(b.paths) + 1 ELSE @ + 1,
              !.had_error = @ \/ item.outcome \in {"Invalid", "Failed"},
              !.found = Append(@, found),
              !.log = Append(@, item)]

\* The end of a round of the loop: an invalid slug and a Failed result set
\* had_error, and the loop goes on to the next path whatever happened.
Advance(b, item, found) ==
    [b EXCEPT !.i = @ + 1,
              !.had_error = @ \/ item.outcome \in {"Invalid", "Failed"},
              !.found = Append(@, found),
              !.log = Append(@, item)]

\* main: one round of the loop over the collected paths, with the answer
\* given to a prompt.  The log keeps what happened to the item, and found
\* the file its path denotes when its turn comes.
ProcessPath(answer) ==
    /\ batch.pc = "loop"
    /\ batch.i <= Len(batch.paths)
    /\ \E path \in {batch.paths[batch.i]} :
       \E filename \in {FileName(path)} :
       \E new_name \in {Slugify(filename, style, keep_unicode)} :
       \E target \in {JoinPath(Parent(path), new_name)} :
       \E r \in {IF filename = <<>> THEN Item(path, "NoFileName", fs)
                  ELSE IF InvalidSlug(new_name) THEN Item(path, "Invalid", fs)
                  ELSE IF batch.interactive /\ path # target /\ ~answer
                  THEN Item(path, "Declined", fs)
                  ELSE Called(path, target,
                              RenameFile(fs, bulkTop, path, target,
                                         batch.no_clobber, batch.dry_run))} :
          /\ fs' = r.fs
          /\ batch' = Advance(batch, r.item,
                               Metadata(fs, bulkTop, path, Cardinality(DOMAIN fs)))
    /\ batchFrame

\* main: the exit code after the loop
Finish ==
    /\ batch.pc = "loop"
    /\ batch.i > Len(batch.paths)
    /\ batch' = [batch EXCEPT
                   !.pc = "exit",
                   !.exit = IF batch.had_error THEN "FAILURE" ELSE "SUCCESS"]
    /\ UNCHANGED fs
    /\ batchFrame

BatchNext ==
    \/ NoFiles
    \/ \E rev \in BOOLEAN : Collect(rev)
    \/ \E answer \in BOOLEAN : ProcessPath(answer)
    \/ Finish

BatchSpec == BatchInit /\ [][BatchNext]_vars

(***************************************************************************)
(* slugr --pipe: run_pipe on a bounded stream of lines                     *)
(***************************************************************************)
\* At most MaxLines reads of stdin before its end.
MaxLines == 3

\* What a read of stdin yields: a line, or an error.
Ok(l) == [ok |-> TRUE, line |-> l]
ReadErr == [ok |-> FALSE]

\* The lines: empty, "A b", "(" whose slug is empty, and ".a" which the two
\* pipelines slugify differently.
LineChoices == {<<>>, <<"A", " ", "b">>, <<"(">>, <<".", "a">>}
Reads == {Ok(l) : l \in LineChoices} \cup {ReadErr}

RECURSIVE Streams(_)
Streams(n) ==
    IF n = 0 THEN {<<>>}
    ELSE LET shorter == Streams(n - 1)
         IN shorter \cup {Append(q, r) : q \in shorter, r \in Reads}

\* How stdout fails, if it does: at the first writeln, or at the last flush.
WriteFailures == {"none", "writeln", "flush"}

\* pipe.pos counts the reads done, pipe.out holds the lines that writeln
\* took, pipe.err the diagnostics on stderr.
PipeInit ==
    /\ fsIdle
    /\ input = <<>>
    /\ style \in Styles
    /\ keep_unicode \in BOOLEAN
    /\ op = "none"
    /\ out = <<>>
    /\ out2 = <<>>
    /\ batch = [pc |-> "idle"]
    /\ race = [pc |-> "idle"]
    /\ \E lines \in Streams(MaxLines), raw \in BOOLEAN, wfail \in WriteFailures :
          pipe = [pc |-> "read", lines |-> lines, raw |-> raw, wfail |-> wfail,
                  pos |-> 0, out |-> <<>>, err |-> <<>>, exit |-> "none"]

pipeFrame == UNCHANGED <<fsVars, slugVars, batch, race>>

\* A read error taken for the end of a line that is skipped.
ReadFailedContinuing(p) ==
    [p EXCEPT !.pos = @ + 1, !.err = Append(@, [kind |-> "read error"])]

\* run_pipe after a read that failed: the diagnostic, and FAILURE.
ReadFailed(p) ==
    [p EXCEPT !.pos = @ + 1, !.err = Append(@, [kind |-> "read error"]),
              !.pc = "exit", !.exit = "FAILURE"]

\* An empty slug written as an empty line.
EmitAlways(p, line, slugified) ==
    IF line = <<>> THEN [p EXCEPT !.pos = @ + 1]
    ELSE [p EXCEPT !.pos = @ + 1, !.out = Append(@, slugified)]

\* run_pipe after a read that gave a line, slugified being its slug: an
\* empty line is passed over, an empty slug gets a warning, and any other
\* slug is written, which fails when stdout fails at writeln.
Emit(p, line, slugified) ==
    IF line = <<>> THEN [p EXCEPT !.pos = @ + 1]
    ELSE IF slugified = <<>>
    THEN [p EXCEPT !.pos = @ + 1, !.err = Append(@, [kind |-> "empty", line |-> line])]
    ELSE IF p.wfail = "writeln"
    THEN [p EXCEPT !.pos = @ + 1, !.pc = "exit", !.exit = "FAILURE"]
    ELSE [p EXCEPT !.pos = @ + 1, !.out = Append(@, slugified)]

\* run_pipe: a round of the loop whose read fails
PipeReadError ==
    /\ pipe.pc = "read"
    /\ pipe.pos < Len(pipe.lines)
    /\ ~pipe.lines[pipe.pos + 1].ok
    /\ pipe' = ReadFailed(pipe)
    /\ pipeFrame

\* run_pipe: a round of the loop whose read gives a line
PipeLine ==
    /\ pipe.pc = "read"
    /\ pipe.pos < Len(pipe.lines)
    /\ pipe.lines[pipe.pos + 1].ok
    /\ \E line \in {pipe.lines[pipe.pos + 1].line} :
       \E slugified \in {IF pipe.raw THEN SlugifyString(line, style, keep_unicode)
                          ELSE Slugify(line, style, keep_unicode)} :
          pipe' = Emit(pipe, line, slugified)
    /\ pipeFrame

\* run_pipe: stdin is at its end; the last flush and the exit code
PipeEnd ==
    /\ pipe.pc = "read"
    /\ pipe.pos = Len(pipe.lines)
    /\ pipe' = [pipe EXCEPT !.pc = "exit",
                            !.exit = IF pipe.wfail = "flush" THEN "FAILURE"
                                     ELSE "SUCCESS"]
    /\ pipeFrame

PipeNext == PipeReadError \/ PipeLine \/ PipeEnd

PipeSpec == PipeInit /\ [][PipeNext]_vars

(***************************************************************************)
(* rename_file beside another process: the check of safe_target and the     *)
(* fs::rename are two steps, and the other process creates files at any     *)
(* time                                                                     *)
(***************************************************************************)
\* The other process creates at most MaxCreates files.
MaxCreates == 2

NameThree == FormatCandidate(<<"a">>, <<".", "t">>, 3)

\* The inode of the k-th file the other process creates.
ActorIno(k) == 100 + k

\* The source A.t is a plain file; a.t and a-2.t are plain files or absent.
RaceInit ==
    /\ foldCase \in BOOLEAN
    /\ bulkTop = 1
    /\ \E l \in {File(NameLower, 2), Unset}, t \in {File(NameTwo, 3), Unset} :
          /\ ~(foldCase /\ l # Unset)
          /\ fs = Directory(bulkTop, (NameUpper :> File(NameUpper, 1))
                                    @@ (NameLower :> l) @@ (NameTwo :> t))
    /\ pre = fs
    /\ last = [op |-> "none"]
    /\ calls = 0
    /\ input = <<>>
    /\ style = "Kebab"
    /\ keep_unicode = FALSE
    /\ op = "none"
    /\ out = <<>>
    /\ out2 = <<>>
    /\ batch = [pc |-> "idle"]
    /\ pipe = [pc |-> "idle"]
    /\ \E target \in {NameLower, NameUpper}, no_clobber \in BOOLEAN, dry_run \in BOOLEAN :
          race = [pc |-> "start", source |-> NameUpper, target |-> target,
                  no_clobber |-> no_clobber, dry_run |-> dry_run,
                  final |-> None, result |-> None, created |-> <<>>]

raceFrame == UNCHANGED <<foldCase, bulkTop, last, calls, slugVars, batch, pipe>>

\* rename_file up to the fs::rename: Skipped for the same path, the final
\* target from safe_target unless the rename is case-only, Failed when
\* safe_target fails, and Renamed without a rename on dry_run.
RaceResolve ==
    /\ race.pc = "start"
    /\ \E st \in {IF race.source = race.target \/ SameFile(fs, bulkTop, race.source, race.target)
                    THEN [ok |-> TRUE, path |-> race.target, checks |-> 0]
                    ELSE SafeTarget(fs, bulkTop, race.target, race.no_clobber,
                                    race.source)} :
          race' = IF race.source = race.target
                  THEN [race EXCEPT !.pc = "done",
                                    !.result = [kind |-> "Skipped", path |-> race.source]]
                  ELSE IF ~st.ok
                  THEN [race EXCEPT !.pc = "done",
                                    !.result = [kind |-> "Failed", path |-> race.source,
                                                error |-> st.error]]
                  ELSE IF race.dry_run
                  THEN [race EXCEPT !.pc = "done", !.final = st.path,
                                    !.result = [kind |-> "Renamed", from |-> race.source,
                                                to |-> st.path]]
                  ELSE [race EXCEPT !.pc = "resolved", !.final = st.path]
    /\ UNCHANGED <<fs, pre>>
    /\ raceFrame

\* rename_file: fs::rename(source, &final_target) and its result; pre keeps
\* the directory as it was just before.
RaceRename ==
    /\ race.pc = "resolved"
    /\ \E r \in {OsRename(fs, bulkTop, race.source, race.final)} :
          /\ fs' = r.fs
          /\ race' = [race EXCEPT
                        !.pc = "done",
                        !.result = IF r.ok
                                   THEN [kind |-> "Renamed", from |-> race.source,
                                         to |-> race.final]
                                   ELSE [kind |-> "Failed", path |-> race.source,
                                         error |-> r.error]]
    /\ pre' = fs
    /\ raceFrame

\* The other process creates the plain file p, where there is none; after
\* tells whether safe_target has made its check already.
ActorCreate(p) ==
    /\ race.pc \in {"start", "resolved"}
    /\ Len(race.created) < MaxCreates
    /\ Lookup(fs, bulkTop, p).kind = "absent"
    /\ fs' = PutKey(fs, Key(p), File(p, ActorIno(Len(race.created) + 1)))
    /\ race' = [race EXCEPT !.created = Append(@, [path |-> p,
                                                    ino |-> ActorIno(Len(race.created) + 1),
                                                    after |-> race.pc = "resolved"])]
    /\ UNCHANGED pre
    /\ raceFrame

RaceNext ==
    \/ RaceResolve
    \/ RaceRename
    \/ \E p \in {NameLower, NameTwo, NameThree} : ActorCreate(p)

RaceSpec == RaceInit /\ [][RaceNext]_vars

(***************************************************************************)
(* Properties of split_extension and slugify, under SlugSpec               *)
(***************************************************************************)
IsAscii(s) == \A k \in 1..Len(s) : Utf8Len(s[k]) = 1 /\ s[k] \in AsciiChars
IsPureDotfileName(s) == StartsWith(s, <<".">>) /\ ~Contains(Tail(s), ".")

\* C1: slugify is idempotent: slugifying a slug again, under the same
\* style and keep_unicode, gives the slug back.
C1_Idempotence == op = "reslugify" => out2 = out

\* C2: a slug holds no shell metacharacter, and only ASCII characters when
\* keep_unicode is false.
C2_ShellSafe ==
    op = "slugify" =>
        /\ \A k \in 1..Len(out) : out[k] \notin ShellMeta
        /\ ~keep_unicode => IsAscii(out)

\* C3: a slug is at most MAX_FILENAME_BYTES bytes long, whatever the
\* lengths of the base and of the extension.
C3_LengthBound == op = "slugify" => ByteLen(out) <= MAX_FILENAME_BYTES

\* C4: the extension of the slug is the extension of the name, case kept.
C4_ExtensionPreserved == op = "resplit" => out2[2] = SplitExtension(input)[2]

\* C5: the base and the extension that split_extension returns, put
\* together, are the name, byte for byte.
C5_SplitRoundTrip == op = "split" => out[1] \o out[2] = input

\* C5 for a name with a multi-byte character before a compound extension in
\* capitals: both parts are non-empty.
C5_Witness ==
    /\ op = "split"
    /\ \E k \in 1..Len(input) : Utf8Len(input[k]) > 1
    /\ out[1] # <<>>
    /\ ToLowercase(out[2]) = COMPOUND[1]
    /\ out[2] # COMPOUND[1]

\* C6: a name that starts with a dot and has no other dot is returned as it
\* is, under every style and keep_unicode setting.
C6_DotfileUnchanged == (op = "slugify" /\ IsPureDotfileName(input)) => out = input

\* C6 for a dotfile with characters that slugify changes elsewhere: a
\* capital, a space or a bracket.
C6_Witness ==
    /\ op = "slugify"
    /\ IsPureDotfileName(input)
    /\ \E k \in 1..Len(input) : input[k] \in AsciiUpper \cup {" ", "("}
    /\ out = input

\* The split of name at character k: what is before k, and the rest.
SplitAt(name, k) == <<SubSeq(name, 1, k - 1), SubSeq(name, k, Len(name))>>

\* The compound extensions that name ends with, whatever the case of its
\* letters.
CompoundHits(name) ==
    {k \in 1..Len(COMPOUND) :
        /\ Len(COMPOUND[k]) <= Len(name)
        /\ ToLowercase(SubSeq(name, Len(name) - Len(COMPOUND[k]) + 1, Len(name)))
               = COMPOUND[k]}

\* The rules of split_extension, the first that applies: a leading dot and
\* no other; a compound extension; the last dot that is not the first
\* character; no extension.
SplitRule(name) ==
    LET hits == CompoundHits(name)
        dots == {k \in 2..Len(name) : name[k] = "."}
    IN IF name # <<>> /\ name[1] = "." /\ dots = {}
       THEN << <<>>, name>>
       ELSE IF hits # {}
       THEN SplitAt(name, Len(name) + 1
                          - Len(COMPOUND[CHOOSE k \in hits : \A j \in hits : k <= j]))
       ELSE IF dots # {}
       THEN SplitAt(name, CHOOSE k \in dots : \A j \in dots : j <= k)
       ELSE <<name, <<>> >>

\* C22: split_extension(name) is what the first applicable rule gives.
C22_SplitRules == op = "split" => out = SplitRule(input)

\* "a.TAR.gz" is split before the compound extension, which keeps its case.
C22_Witness ==
    /\ op = "split"
    /\ input = <<"a", ".", "T", "A", "R", ".", "g", "z">>
    /\ CompoundHits(input) = {1}
    /\ out = << <<"a">>, <<".", "T", "A", "R", ".", "g", "z">> >>

\* C23: slugify_string gives what slugify gives for an input without a dot,
\* and never more than 255 bytes.
C23_StringPipeline ==
    op = "slugify_string" =>
        /\ ~Contains(input, ".") => out = Slugify(input, style, keep_unicode)
        /\ ByteLen(out) <= MAX_FILENAME_BYTES

\* 300 times "a " as plain text in the Kebab style: cut to fit 255 bytes,
\* as slugify cuts it.
C23_Witness ==
    /\ op = "slugify_string"
    /\ style = "Kebab"
    /\ input = Repeat(<<"a", " ">>, LongRun)
    /\ ByteLen(SlugifyStringWhole(input, style, keep_unicode)) > MAX_FILENAME_BYTES
    /\ ByteLen(out) <= MAX_FILENAME_BYTES
    /\ out = Slugify(input, style, keep_unicode)

\* A word with its first character upper-cased, and the words joined that way.
TitleCased(word) == CharToUpper(Head(word)) \o Tail(word)
PascalJoin(words) == ConcatMap(LAMBDA k : TitleCased(words[k]), 1, Len(words))

\* A name with a base that is no dotfile and has words, short enough not to
\* be truncated.
PlainName(f) ==
    /\ f # <<>>
    /\ ByteLen(f) <= MAX_FILENAME_BYTES
    /\ SplitExtension(f)[1] # <<>>
    /\ ~StartsWith(SplitExtension(f)[1], <<".">>)
    /\ SlugWords(SplitExtension(f)[1], keep_unicode) # <<>>

\* C19: some style that can be selected is the Pascal style: with it the slug
\* of a name is the words of its base, each with its first character in
\* upper case, joined without a separator, and the extension.
C19_PascalStyle ==
    (op = "slugify" /\ PlainName(input)) =>
        \E st \in Styles :
            Slugify(input, st, keep_unicode) =
                RestoreVersionDots(PascalJoin(SlugWords(SplitExtension(input)[1],
                                                        keep_unicode)))
                \o SplitExtension(input)[2]

\* The dot at position k of b stands between two ASCII digits.
VersionDotAt(b, k) ==
    /\ 1 < k /\ k < Len(b)
    /\ b[k] = "."
    /\ IsAsciiDigit(b[k - 1]) /\ IsAsciiDigit(b[k + 1])

\* Position k of b is in a run of digits and of dots between digits.
InRun(b, k) == k \in 1..Len(b) /\ (IsAsciiDigit(b[k]) \/ VersionDotAt(b, k))

\* The version groups of b: the longest runs of digits and dots between
\* digits that have a dot.
VersionGroups(b) ==
    LET starts == {i \in 1..Len(b) : InRun(b, i) /\ ~InRun(b, i - 1)}
        RunFrom(i) == SubSeq(b, i, FirstIn(LAMBDA k : ~InRun(b, k), i, Len(b)) - 1)
    IN {g \in {RunFrom(i) : i \in starts} : Contains(g, ".")}

VersionDots(b) == Cardinality({k \in 1..Len(b) : VersionDotAt(b, k)})
Dots(s) == Cardinality({k \in 1..Len(s) : s[k] = "."})
ContainsSeq(s, g) == \E p \in 1..(Len(s) - Len(g) + 1) : SubSeq(s, p, p + Len(g) - 1) = g

\* The slug s without the extension ext.
SlugBase(s, ext) == SubSeq(s, 1, Len(s) - Len(ext))

\* The base of the slug of a name with base b, as it is before truncate_base.
Untruncated(b) ==
    LET words == SlugWords(b, keep_unicode)
    IN IF b = <<>> \/ words = <<>> THEN <<>>
       ELSE (IF StartsWith(b, <<".">>) THEN <<".">> ELSE <<>>)
            \o RestoreVersionDots(JoinWords(words, style))

\* The slug of the name f needs no truncation.
Fits(f) ==
    ByteLen(Untruncated(SplitExtension(f)[1])) + ByteLen(SplitExtension(f)[2])
        <= MAX_FILENAME_BYTES

Numbered(target, n) ==
    LET sp == SplitExtension(target)
    IN IF sp[1] = <<>> THEN sp[2] \o <<"-">> \o Decimal(n)
       ELSE sp[1] \o <<"-">> \o Decimal(n) \o sp[2]

\* Names a and b resolve to one file of directory f.
SameEntry(f, a, b) ==
    LET ma == Metadata(f, bulkTop, a, Cardinality(DOMAIN f))
    IN ma # 0 /\ ma = Metadata(f, bulkTop, b, Cardinality(DOMAIN f))

\* The name exists and is not the source's own file.
Taken(source, p) ==
    Exists(fs, bulkTop, p) /\ ~(source # None /\ SameEntry(fs, source, p))

Probed == last.op = "safe_target" /\ last.no_clobber

\* C7: when the target collides, safe_target returns the numbered
\* candidate with the smallest n in 2..1001 that does not collide.
C7_CollisionChain ==
    (Probed /\ Taken(last.source, last.target) /\ last.ret.ok) =>
        \E n \in 2..(MAX_COLLISION_SUFFIX + 1) :
            /\ last.ret.path = Numbered(last.target, n)
            /\ ~Taken(last.source, Numbered(last.target, n))
            /\ \A m \in 2..(n - 1) : Taken(last.source, Numbered(last.target, m))

\* C7 for the chain a.t, a-2.t, a-3.t, which gives a-4.t.
C7_Witness ==
    /\ Probed
    /\ Taken(last.source, last.target)
    /\ \A n \in 2..SmallChain : Taken(last.source, Numbered(last.target, n))
    /\ last.ret.ok
    /\ last.ret.path = Numbered(last.target, SmallChain + 1)

AllTaken(source, target, top) ==
    /\ Taken(source, target)
    /\ \A n \in 2..top : Taken(source, Numbered(target, n))

\* C8: safe_target fails exactly when the target and the candidates 2 to
\* 1001 all collide, after at most 1001 checks; with only 1001 free it
\* returns that candidate.
C8_Exhaustion ==
    Probed =>
        /\ ~last.ret.ok <=> AllTaken(last.source, last.target, MAX_COLLISION_SUFFIX + 1)
        /\ last.ret.checks <= MAX_COLLISION_SUFFIX + 1
        /\ (/\ AllTaken(last.source, last.target, MAX_COLLISION_SUFFIX)
            /\ ~Taken(last.source, Numbered(last.target, MAX_COLLISION_SUFFIX + 1)))
           => (/\ last.ret.ok
               /\ last.ret.path = Numbered(last.target, MAX_COLLISION_SUFFIX + 1))

\* C8 for the directory where a.t and a-2.t to a-1001.t all exist.
C8_Witness ==
    /\ Probed
    /\ ~last.ret.ok
    /\ last.ret.checks = MAX_COLLISION_SUFFIX + 1

\* C9: when source and target are the same file, safe_target and
\* rename_file settle on the target itself, never on a numbered name.
C9_CaseOnlyRename ==
    /\ (/\ Probed
        /\ last.source # None
        /\ SameEntry(fs, last.source, last.target))
       => (last.ret.ok /\ last.ret.path = last.target)
    /\ (/\ last.op = "rename_file"
        /\ last.no_clobber
        /\ SameEntry(pre, last.source, last.target))
       => \/ last.result.kind = "Skipped"
          \/ last.result.kind = "Renamed" /\ last.result.to = last.target

\* C9 for A.t renamed to a.t on a case-insensitive filesystem.
C9_Witness ==
    /\ foldCase
    /\ last.op = "rename_file"
    /\ last.no_clobber
    /\ ~last.dry_run
    /\ last.source # last.target
    /\ SameEntry(pre, last.source, last.target)
    /\ last.result.kind = "Renamed"
    /\ Lookup(fs, bulkTop, last.target).name = last.target

\* What a directory entry is, apart from the spelling of its name.
Content(e) ==
    CASE e.kind = "file" -> <<"file", e.ino>>
      [] e.kind = "symlink" -> <<"symlink", e.to>>
      [] e.kind = "dir" -> <<"dir", e.ino>>
      [] e.kind = "absent" -> <<"absent">>

Touched == DOMAIN pre \cup DOMAIN fs
Entries(f) == {k \in Touched : Lookup(f, bulkTop, k).kind # "absent"}

\* C10: a rename_file call with no_clobber and without dry_run leaves every
\* entry other than its source as it was, and the number of entries as it
\* was.
C10_NoClobber ==
    (last.op = "rename_file" /\ last.no_clobber /\ ~last.dry_run) =>
        /\ \A k \in Entries(pre) \ {Key(last.source)} :
              Content(Lookup(fs, bulkTop, k)) = Content(Lookup(pre, bulkTop, k))
        /\ Cardinality(Entries(fs)) = Cardinality(Entries(pre))

\* C11: safe_target returns the target itself when no_clobber is false or
\* the target does not collide, and only then; a path collides exactly
\* when it exists and no source was given or the source is another file.
C11_TargetUnchanged ==
    last.op = "safe_target" =>
        /\ (~last.no_clobber \/ ~Taken(last.source, last.target))
           => (last.ret.ok /\ last.ret.path = last.target)
        /\ (last.no_clobber /\ Taken(last.source, last.target))
           => (last.ret.ok => last.ret.path # last.target)

\* C11 for an existing target that is the source's own file under another
\* name, with no_clobber.
C11_Witness ==
    /\ Probed
    /\ last.source # None
    /\ last.source # last.target
    /\ Exists(fs, bulkTop, last.target)
    /\ ~Taken(last.source, last.target)
    /\ last.ret.path = last.target

Renaming == last.op = "rename_file"

\* The target rename_file settles on in directory pre: the target itself
\* for the source's own file, else what safe_target resolves.
Resolved ==
    IF SameEntry(pre, last.source, last.target)
    THEN [ok |-> TRUE, path |-> last.target]
    ELSE SafeTarget(pre, bulkTop, last.target, last.no_clobber, last.source)

\* C12: rename_file changes the directory only when dry_run is false,
\* source and target differ and the result is Renamed; under dry_run (where
\* a rename is reported as Renamed from the source to the resolved target),
\* for source = target (Skipped) and for Failed, the directory is as before.
C12_Frame ==
    Renaming =>
        /\ fs # pre => (/\ ~last.dry_run
                        /\ last.source # last.target
                        /\ last.result.kind = "Renamed")
        /\ last.dry_run => fs = pre
        /\ (last.dry_run /\ last.result.kind = "Renamed")
           => (/\ last.result.from = last.source
               /\ Resolved.ok
               /\ last.result.to = Resolved.path)
        /\ last.source = last.target => (last.result.kind = "Skipped" /\ fs = pre)
        /\ last.result.kind = "Failed" => fs = pre

\* C12 for a dry run of a rename that would have moved an existing source
\* to a numbered name.
C12_Witness ==
    /\ Renaming
    /\ last.dry_run
    /\ Exists(pre, bulkTop, last.source)
    /\ last.result.kind = "Renamed"
    /\ last.result.to # last.target
    /\ fs = pre

SourceMissing == Lookup(pre, bulkTop, last.source).kind = "absent"

\* C13: when collision resolution fails, or the rename of the operating
\* system fails (the source is missing), rename_file returns Failed with
\* the source as path and that very error, and the directory, the source
\* included, is as before; rename_file fails for no other reason.
C13_FailureReported ==
    (Renaming /\ last.source # last.target) =>
        /\ ~Resolved.ok
           => (/\ last.result = [kind |-> "Failed", path |-> last.source,
                                 error |-> Resolved.error]
               /\ fs = pre)
        /\ (Resolved.ok /\ ~last.dry_run /\ SourceMissing)
           => (/\ last.result = [kind |-> "Failed", path |-> last.source,
                                 error |-> "NotFound"]
               /\ fs = pre)
        /\ last.result.kind = "Failed"
           => (/\ ~Resolved.ok \/ (~last.dry_run /\ SourceMissing)
               /\ Content(Lookup(fs, bulkTop, last.source))
                    = Content(Lookup(pre, bulkTop, last.source)))

\* C13 for a rename whose source does not exist.
C13_Witness ==
    /\ Renaming
    /\ ~last.dry_run
    /\ SourceMissing
    /\ last.result.kind = "Failed"
    /\ last.result.path = last.source
    /\ last.result.error = "NotFound"

(***************************************************************************)
(* Properties of the rename loop of main, under BatchSpec                  *)
(***************************************************************************)
\* main went past the usage error and collected paths.
Collected == batch.pc \in {"loop", "exit"} /\ ~(batch.input_paths = <<>> /\ batch.terminal)

\* The outcomes that make the batch a failure.
ErrorOutcomes == {"Invalid", "Failed"}

\* C14: the loop handles the collected paths one by one in their order, the
\* k-th round handling the k-th path whatever happened before it; when main
\* exits after the loop every collected path has had its round, and the exit
\* code is FAILURE exactly when some item had an invalid slug or a Failed
\* result.
C14_BatchDriver ==
    Collected =>
        /\ Len(batch.log) = batch.i - 1
        /\ Len(batch.log) <= Len(batch.paths)
        /\ \A k \in 1..Len(batch.log) : batch.log[k].path = batch.paths[k]
        /\ batch.pc = "exit" =>
              /\ Len(batch.log) = Len(batch.paths)
              /\ batch.exit = "FAILURE" <=>
                    \E k \in 1..Len(batch.log) : batch.log[k].outcome \in ErrorOutcomes

\* A batch in which an item failed, later items were renamed and skipped,
\* and main exited with FAILURE.
C14_Witness ==
    /\ batch.pc = "exit"
    /\ batch.exit = "FAILURE"
    /\ \E j \in 1..Len(batch.log) :
          /\ batch.log[j].outcome = "Failed"
          /\ \E k \in (j + 1)..Len(batch.log) : batch.log[k].outcome = "Renamed"
          /\ \E k \in (j + 1)..Len(batch.log) : batch.log[k].outcome = "Skipped"

\* The names that denote no entry of their own: empty, "." and "..".
DotNames == {<<>>, <<".">>, <<".", ".">>}

\* The slug main computes for the file name of path.
SlugOf(path) == Slugify(FileName(path), style, keep_unicode)

\* The round of the loop that handles a path whose slug is empty, "." or "..".
InvalidRound ==
    /\ batch.pc = "loop"
    /\ batch'.pc = "loop"
    /\ batch'.i = batch.i + 1
    /\ SlugOf(batch.paths[batch.i]) \in DotNames

\* C15: a round on a path whose slug is empty, "." or ".." records a failure,
\* does not call rename_file and leaves the directory as it is; and no call
\* of rename_file has a target whose last component is empty, "." or "..".
C15_InvalidSlug ==
    /\ [](\A k \in 1..Len(batch.log) :
            batch.log[k].called => FileName(batch.log[k].target) \notin DotNames)
    /\ [][InvalidRound =>
            /\ fs' = fs
            /\ batch'.had_error
            /\ batch'.log[batch.i].outcome = "Invalid"
            /\ ~batch'.log[batch.i].called]_vars

\* A batch run for real on the files "(" and "(.", whose slugs are "" and
\* ".": both are refused and still there when main exits with FAILURE.
C15_Witness ==
    /\ batch.pc = "exit"
    /\ batch.exit = "FAILURE"
    /\ ~batch.dry_run
    /\ batch.paths = <<PathParen, PathParenDot>>
    /\ SlugOf(PathParen) = <<>>
    /\ SlugOf(PathParenDot) = <<".">>
    /\ \A k \in 1..2 : batch.log[k].outcome = "Invalid" /\ ~batch.log[k].called
    /\ Metadata(fs, bulkTop, PathParen, Cardinality(DOMAIN fs)) = 14
    /\ Metadata(fs, bulkTop, PathParenDot, Cardinality(DOMAIN fs)) = 15

\* Directory a is an ancestor of path p.
IsAncestor(a, p) == StartsWith(p, a \o <<"/">>) /\ p # a

\* C16: in the list of collected paths no path comes after one of its
\* ancestor directories, and each path, when its round comes, denotes the
\* entry it denoted when it was collected.
C16_BottomUp ==
    Collected =>
        /\ \A j \in 1..Len(batch.paths) : \A k \in (j + 1)..Len(batch.paths) :
              ~IsAncestor(batch.paths[j], batch.paths[k])
        /\ \A k \in 1..Len(batch.found) : batch.found[k] = batch.inos[k]

\* The (from, to) pairs of the Renamed results in a sequence of results.
RenamedPairs(results) ==
    LET renamed == SelectSeq(results, LAMBDA r : r.kind = "Renamed")
    IN [k \in 1..Len(renamed) |-> <<renamed[k].from, renamed[k].to>>]

\* The results of the calls of rename_file in the batch.
Performed ==
    LET called == SelectSeq(batch.log, LAMBDA item : item.called)
    IN [k \in 1..Len(called) |-> called[k].result]

\* The results of the same calls in dry-run mode: every one of them is made
\* on the directory as it was at the start, which a dry run never changes.
Previewed ==
    LET called == SelectSeq(batch.log, LAMBDA item : item.called)
    IN [k \in 1..Len(called) |->
          RenameFile(pre, bulkTop, called[k].path, called[k].target,
                     batch.no_clobber, TRUE).result]

\* C30: the pairs a dry run reports are the renames the execute mode performs
\* on the same paths from the same directory with the same options, in the
\* same order.
C30_DryRunPreview ==
    (batch.pc = "exit" /\ ~batch.dry_run) =>
        RenamedPairs(Performed) = RenamedPairs(Previewed)

(***************************************************************************)
(* Properties of run_pipe, under PipeSpec                                  *)
(***************************************************************************)
\* The slug run_pipe computes for a line.
PipeSlug(line) ==
    IF pipe.raw THEN SlugifyString(line, style, keep_unicode)
    ELSE Slugify(line, style, keep_unicode)

\* The first n reads all gave a line.
AllRead(n) == \A k \in 1..n : pipe.lines[k].ok

\* The slugs of the first n lines, without the empty lines and the lines
\* whose slug is empty; and the warnings for the latter.
SlugsOf(n) ==
    ConcatMap(LAMBDA k : IF pipe.lines[k].line = <<>> \/ PipeSlug(pipe.lines[k].line) = <<>>
                         THEN <<>> ELSE <<PipeSlug(pipe.lines[k].line)>>,
              1, n)
WarningsOf(n) ==
    ConcatMap(LAMBDA k : IF pipe.lines[k].line # <<>> /\ PipeSlug(pipe.lines[k].line) = <<>>
                         THEN <<[kind |-> "empty", line |-> pipe.lines[k].line]>>
                         ELSE <<>>,
              1, n)

\* C17: as long as no read and no write has failed, the lines written are
\* the slugs, in order, of the non-empty lines read whose slug is not empty,
\* stderr holds one warning for each line whose slug is empty, and run_pipe
\* ends after the last line with SUCCESS.
C17_PipeOutput ==
    (pipe.pc # "idle" /\ pipe.wfail = "none" /\ AllRead(pipe.pos)) =>
        /\ pipe.out = SlugsOf(pipe.pos)
        /\ pipe.err = WarningsOf(pipe.pos)
        /\ pipe.pc = "exit" => pipe.pos = Len(pipe.lines) /\ pipe.exit = "SUCCESS"

\* The lines "A b", "(" and ".a" piped through: two slugs written, one
\* warning, SUCCESS.
C17_Witness ==
    /\ pipe.pc = "exit"
    /\ pipe.lines = <<Ok(<<"A", " ", "b">>), Ok(<<"(">>), Ok(<<".", "a">>)>>
    /\ Len(pipe.out) = 2
    /\ pipe.out[1] = PipeSlug(<<"A", " ", "b">>)
    /\ pipe.out[2] = PipeSlug(<<".", "a">>)
    /\ pipe.err = <<[kind |-> "empty", line |-> <<"(">>]>>
    /\ pipe.exit = "SUCCESS"

\* Read e is the first that fails.
FirstError(e) == e \in 1..Len(pipe.lines) /\ ~pipe.lines[e].ok /\ AllRead(e - 1)

\* C18: run_pipe never reads past the first read that fails; once that read
\* is done run_pipe has ended with FAILURE, and what was written is the slugs
\* of lines before it.
C18_ReadError ==
    pipe.pc # "idle" =>
        \A e \in 1..Len(pipe.lines) : FirstError(e) =>
            /\ pipe.pos <= e
            /\ pipe.pos = e =>
                  /\ pipe.pc = "exit"
                  /\ pipe.exit = "FAILURE"
                  /\ pipe.err[Len(pipe.err)] = [kind |-> "read error"]
                  /\ pipe.wfail # "writeln" => pipe.out = SlugsOf(e - 1)

\* A line whose slug is empty, then a read that fails, then one more line:
\* the warning did not stop run_pipe, the read error did, and the last line
\* was neither read nor written.
C18_Witness ==
    /\ pipe.pc = "exit"
    /\ pipe.lines = <<Ok(<<"(">>), ReadErr, Ok(<<"A", " ", "b">>)>>
    /\ pipe.pos = 2
    /\ pipe.out = <<>>
    /\ pipe.err = <<[kind |-> "empty", line |-> <<"(">>], [kind |-> "read error"]>>
    /\ pipe.exit = "FAILURE"

(***************************************************************************)
(* Properties of rename_file beside another process, under RaceSpec        *)
(***************************************************************************)
\* The rename was done and took the place of another file: the file e that
\* was at the final target just before is gone, and the source is there.
Replaced(e) ==
    /\ race.pc = "done"
    /\ ~race.dry_run
    /\ race.result.kind = "Renamed"
    /\ e = Lookup(pre, bulkTop, race.final)
    /\ e.kind = "file"
    /\ e.ino # Lookup(pre, bulkTop, race.source).ino
    /\ Lookup(fs, bulkTop, race.final).ino = Lookup(pre, bulkTop, race.source).ino
    /\ \A k \in DOMAIN fs : fs[k].kind = "file" => fs[k].ino # e.ino

\* C21: in a directory of plain files, a rename_file call with no_clobber
\* replaces a file only if the other process created that file at the
\* resolved target after the check of safe_target; and it does replace it
\* then (the witness).
C21_Toctou ==
    (race.pc = "done" /\ race.no_clobber) =>
        \A e \in {Lookup(pre, bulkTop, race.final)} :
            Replaced(e) =>
                \E k \in 1..Len(race.created) :
                    /\ race.created[k].after
                    /\ race.created[k].ino = e.ino
                    /\ Key(race.created[k].path) = Key(race.final)

\* a.t was free when safe_target checked; the other process then created
\* a.t, and the rename of A.t to a.t replaced that file.
C21_Witness ==
    /\ race.pc = "done"
    /\ race.no_clobber
    /\ ~foldCase
    /\ race.final = NameLower
    /\ race.created = <<[path |-> NameLower, ino |-> ActorIno(1), after |-> TRUE]>>
    /\ Lookup(pre, bulkTop, NameLower).ino = ActorIno(1)
    /\ Replaced(Lookup(pre, bulkTop, NameLower))

(***************************************************************************)
(* truncate_base, under SlugSpec                                           *)
(***************************************************************************)
\* The number of characters of the longest prefix of base that has at most
\* budget bytes; base has more than budget bytes.
PrefixChars(base, budget) ==
    LET hi == IF Len(base) < budget THEN Len(base) ELSE budget
        fits(m) == ByteLen(SubSeq(base, 1, m)) <= budget
    IN CHOOSE m \in 0..hi : fits(m) /\ (m = hi \/ ~fits(m + 1))

\* C26: truncate_base(base, ext, max) returns base when it has at most
\* max - len(ext) bytes (0 when the extension is longer than max).  Otherwise
\* it returns the longest prefix of whole characters within that many bytes,
\* cut before the last '-' or '_' the prefix has after its first character,
\* and then the result does not end with a separator; with no such separator
\* it returns the prefix itself.
C26_TruncateBase ==
    op = "truncate" =>
        LET base == out2[1]
            ext == out2[2]
            budget == IF ByteLen(ext) >= MAX_FILENAME_BYTES THEN 0
                      ELSE MAX_FILENAME_BYTES - ByteLen(ext)
        IN IF ByteLen(base) <= budget THEN out = base
           ELSE LET m == PrefixChars(base, budget)
                    prefix == SubSeq(base, 1, m)
                    seps == {k \in 2..m : prefix[k] \in {"-", "_"}}
                IN /\ ByteLen(prefix) <= budget
                   /\ IF seps = {} THEN out = prefix
                      ELSE LET last_sep == CHOOSE k \in seps : \A j \in seps : j <= k
                           IN /\ out = SubSeq(prefix, 1, last_sep - 1)
                              /\ out # <<>>
                              /\ out[Len(out)] \notin {"-", "_"}

\* "a a a ... .t": the 599 bytes of a-a-...-a are cut to 251, before the
\* separator at byte 251 of the 253 bytes the extension leaves.
C26_Witness ==
    /\ op = "truncate"
    /\ style = "Kebab"
    /\ input = Repeat(<<"a", " ">>, LongRun) \o <<".", "t">>
    /\ out2[2] = <<".", "t">>
    /\ ByteLen(out2[1]) > MAX_FILENAME_BYTES
    /\ Len(out) = 251
    /\ out[251] = "a"

(***************************************************************************)
(* The shape of the slug, under SlugSpec                                   *)
(***************************************************************************)
Separator == IF style = "Kebab" THEN "-" ELSE "_"

UpperChars == AsciiUpper \cup {"U00C9", "U0130"}

\* C27: in the Kebab and Snake styles the part of slugify's result before
\* the extension has no upper-case character and no separator of the other
\* style, and the separator of the style is never its first character, never
\* its last and never next to another one; so it is too when the base was
\* truncated.
C27_Separators ==
    (op = "slugify" /\ style \in {"Kebab", "Snake"}) =>
        LET sp == SplitExtension(input)
            base == SlugBase(out, sp[2])
        IN sp[1] # <<>> =>
              /\ out = base \o sp[2]
              /\ \A k \in 1..Len(base) :
                    /\ base[k] \notin UpperChars
                    /\ base[k] \in {"-", "_"} =>
                          /\ base[k] = Separator
                          /\ 1 < k /\ k < Len(base)
                          /\ base[k + 1] # Separator

\* "a a a ... .t" in the Snake style: the truncated base a_a_..._a of 251
\* bytes.
C27_Witness ==
    /\ op = "slugify"
    /\ style = "Snake"
    /\ input = Repeat(<<"a", " ">>, LongRun) \o <<".", "t">>
    /\ Len(out) = 253
    /\ out[2] = "_"
    /\ out[251] = "a"
    /\ out[252] = "."

\* No character of b is a word character of the scan of slugify.
NoWordChar(b) ==
    LET text == IF keep_unicode THEN b ELSE AnyAscii(b)
    IN \A k \in 1..Len(text) :
          ~(IF keep_unicode THEN IsAlphanumeric(text[k])
            ELSE IsAsciiAlphanumeric(text[k]))

\* C28: for a name that does not start with a dot and whose base has no
\* word character, slugify returns the extension of the name as it is, which
\* is the empty string when the name has none.
C28_NoWords ==
    (op = "slugify" /\ ~StartsWith(input, <<".">>)
                    /\ NoWordChar(SplitExtension(input)[1])) =>
        out = SplitExtension(input)[2]

\* " ( .TAR" gives ".TAR".
C28_Witness ==
    /\ op = "slugify"
    /\ input = <<" ", "(", ".", "T", "A", "R">>
    /\ out = <<".", "T", "A", "R">>

\* C29: the result of slugify on a non-empty name ends with the extension
\* of the name, character for character.
C29_ExtensionKept ==
    (op = "slugify" /\ input # <<>>) =>
        LET ext == SplitExtension(input)[2]
        IN /\ Len(ext) <= Len(out)
           /\ SubSeq(out, Len(out) - Len(ext) + 1, Len(out)) = ext

\* "A.TAR.gz" keeps ".TAR.gz" after the lower-cased base.
C29_Witness ==
    /\ op = "slugify"
    /\ input = <<"A", ".", "T", "A", "R", ".", "g", "z">>
    /\ out = <<"a", ".", "T", "A", "R", ".", "g", "z">>

C25_RoundTrip ==
    /\ (op = "restore" /\ ~Contains(input, VERSION_DOT)) => out2 = input
    /\ op \in {"slugify", "slugify_string"} => ~Contains(out, VERSION_DOT)

====
